---- MODULE Spec2Model ----
(***************************************************************************)
(* WASMRenderBench: the wireframe viewer of src/main.c as a state machine.  *)
(*                                                                         *)
(* main.c holds the application state (SoftwareRenderer), the frame         *)
(* callbacks init / update / draw and the input handlers.  Vec3, Camera and *)
(* Scene live in other files of the repository; their operators below are   *)
(* written from spec.md (sections 3, 4.1-4.3).                              *)
(*                                                                         *)
(* Numbers.  A C double is a fixed-point integer counted in 1/Scale of a    *)
(* world unit, or NaN.  A scalar is the one-element sequence <<v>>, NaN is  *)
(* the empty sequence; a Vec3 is <<x, y, z>> or NaNVec (every component     *)
(* NaN: the only NaN source, a division by a zero length, poisons all three *)
(* components at once).  Angles are milliradians; cos and sin are rounded   *)
(* to the nearest eighth of a turn.                                         *)
(***************************************************************************)
EXTENDS Integers, Sequences, FiniteSets, TLC

\* ---------------------------------------------------------------- bounds
Scale == 100         \* fixed-point units per world unit
TickStep == 6000     \* ms by which the tick source advances in one Tick step
MaxTicks == 2        \* Tick steps in a run
MaxFrames == 2       \* updates in a run

\* ------------------------------------------------------ program constants
IdleLimit == 10000          \* main.c:114
TicksPerRadian == 2000      \* main.c:238
moveForce == 1              \* main.c:63
ViewW == 512                \* main.c:69
ViewH == 512                \* main.c:69

\* ---------------------------------------------------------------- doubles
NAN == <<>>
Dbl(v) == <<v>>
IsNaN(f) == f = NAN

\* C's a != b on doubles: true whenever either side is NaN.
FNe(a, b) == IsNaN(a) \/ IsNaN(b) \/ a # b

\* C's a <= b on doubles: false whenever either side is NaN.
FLe(a, b) == ~IsNaN(a) /\ ~IsNaN(b) /\ a[1] <= b[1]

\* Division rounding toward zero.
Quot(a, b) == IF a >= 0 THEN a \div b ELSE -((-a) \div b)

Abs(a) == IF a >= 0 THEN a ELSE -a

RECURSIVE SqrtBetween(_, _, _)
SqrtBetween(n, lo, hi) ==
    IF lo >= hi THEN lo
    ELSE LET mid == (lo + hi + 1) \div 2
         IN  IF mid * mid <= n THEN SqrtBetween(n, mid, hi)
             ELSE SqrtBetween(n, lo, mid - 1)

\* floor(sqrt(n)) for n >= 0
Isqrt(n) == SqrtBetween(n, 0, n)

\* ------------------------------------------------------------------- Vec3
NaNVec == <<>>
IsNaNVec(v) == v = NaNVec

Vec3_new(x, y, z) == <<x, y, z>>

Vec3_add(a, b) ==
    IF IsNaNVec(a) \/ IsNaNVec(b) THEN NaNVec
    ELSE <<a[1] + b[1], a[2] + b[2], a[3] + b[3]>>

Vec3_sub(a, b) ==
    IF IsNaNVec(a) \/ IsNaNVec(b) THEN NaNVec
    ELSE <<a[1] - b[1], a[2] - b[2], a[3] - b[3]>>

\* v scaled by the rational num / den
Vec3_mult(v, num, den) ==
    IF IsNaNVec(v) THEN NaNVec
    ELSE <<Quot(v[1] * num, den), Quot(v[2] * num, den), Quot(v[3] * num, den)>>

\* the raw sum of products, in 1/Scale^2
RawDot(a, b) == a[1] * b[1] + a[2] * b[2] + a[3] * b[3]

Vec3_dot(a, b) ==
    IF IsNaNVec(a) \/ IsNaNVec(b) THEN NAN ELSE Dbl(Quot(RawDot(a, b), Scale))

Vec3_cross(a, b) ==
    IF IsNaNVec(a) \/ IsNaNVec(b) THEN NaNVec
    ELSE <<Quot(a[2] * b[3] - a[3] * b[2], Scale),
           Quot(a[3] * b[1] - a[1] * b[3], Scale),
           Quot(a[1] * b[2] - a[2] * b[1], Scale)>>

Vec3_sqLength(v) == IF IsNaNVec(v) THEN NAN ELSE Dbl(RawDot(v, v))

Vec3_length(v) == IF IsNaNVec(v) THEN NAN ELSE Dbl(Isqrt(RawDot(v, v)))

\* Rescale v to len world units: each component times len / |v|.  A zero
\* vector divides by zero: 0 * (len / 0) is NaN in every component.
Vec3_setLength(v, len) ==
    IF IsNaNVec(v) THEN NaNVec
    ELSE LET l == Isqrt(RawDot(v, v))
         IN  IF l = 0 THEN NaNVec
             ELSE <<Quot(v[1] * len * Scale, l),
                    Quot(v[2] * len * Scale, l),
                    Quot(v[3] * len * Scale, l)>>

\* cos and sin of an angle in milliradians, times Scale, rounded to the
\* nearest eighth of a turn (785 mrad).
Octant(mrad) == ((mrad + 392) \div 785) % 8

CosTab == <<1000, 707, 0, -707, -1000, -707, 0, 707>>
SinTab == <<0, 707, 1000, 707, 0, -707, -1000, -707>>

Cos(mrad) == Quot(CosTab[Octant(mrad) + 1] * Scale, 1000)
Sin(mrad) == Quot(SinTab[Octant(mrad) + 1] * Scale, 1000)

\* (radius * cos(angle), height, radius * sin(angle))
Vec3_cylindrical(radius, mrad, height) ==
    <<Quot(radius * Cos(mrad), Scale), height, Quot(radius * Sin(mrad), Scale)>>

\* v turned by mrad about the unit axis k (Rodrigues' formula)
Rotate(v, k, mrad) ==
    IF IsNaNVec(v) \/ IsNaNVec(k) THEN NaNVec
    ELSE LET c == Cos(mrad)
             s == Sin(mrad)
             kxv == Vec3_cross(k, v)
             kv == Quot(RawDot(k, v), Scale)
         IN  <<Quot(v[1] * c + kxv[1] * s + Quot(k[1] * kv, Scale) * (Scale - c), Scale),
               Quot(v[2] * c + kxv[2] * s + Quot(k[2] * kv, Scale) * (Scale - c), Scale),
               Quot(v[3] * c + kxv[3] * s + Quot(k[3] * kv, Scale) * (Scale - c), Scale)>>

\* ----------------------------------------------------------------- Camera
TanHalfFov == 577    \* 1000 * tan((3.14 / 3) / 2), main.c:69

Focal(extent) == (extent * 1000) \div (2 * TanHalfFov)

\* The invalid marker of a projected point: both coordinates NaN.
NaNPoint == [x |-> NAN, y |-> NAN]

\* Camera_new(pos, up, width, height, fovX, fovY): looks down +z until told
\* otherwise.
Camera_new(pos, up) == [pos |-> pos, up |-> up, dir |-> Vec3_new(0, 0, Scale)]

\* v with its component along the unit vector k removed
Horizontal(v, k) ==
    IF IsNaNVec(v) \/ IsNaNVec(k) THEN NaNVec
    ELSE Vec3_sub(v, Vec3_mult(k, Quot(RawDot(v, k), Scale), Scale))

Camera_directionForwardHorizontal(cam) ==
    Vec3_setLength(Horizontal(cam.dir, cam.up), 1)

Camera_directionRight(cam) == Vec3_setLength(Vec3_cross(cam.dir, cam.up), 1)

\* yaw: the look direction turned about up
Camera_turnRight(cam, mrad) == [cam EXCEPT !.dir = Rotate(cam.dir, cam.up, mrad)]

\* The clamp of tiltDown: the tilted direction may neither come within
\* Scale / 50 of the up axis nor pass over it.
TiltAllowed(cam, cand) ==
    \/ IsNaNVec(cand)
    \/ /\ Abs(Quot(RawDot(cand, cam.up), Scale)) < Scale - Scale \div 50
       /\ RawDot(Horizontal(cand, cam.up), Horizontal(cam.dir, cam.up)) > 0

\* pitch: the look direction turned about the right axis, clamped
Camera_tiltDown(cam, mrad) ==
    LET cand == Rotate(cam.dir, Camera_directionRight(cam), -mrad)
    IN  IF TiltAllowed(cam, cand) THEN [cam EXCEPT !.dir = cand] ELSE cam

Camera_setLookDirection(cam, d) == [cam EXCEPT !.dir = Vec3_setLength(d, 1)]

\* World point to screen point: the invalid marker for a point that is not
\* in front of the camera, and for any NaN on the way.
Camera_project(cam, p) ==
    LET right == Camera_directionRight(cam)
        upC == Vec3_cross(right, cam.dir)
        d == Vec3_sub(p, cam.pos)
        depth == Vec3_dot(d, cam.dir)
    IN  IF IsNaNVec(d) \/ IsNaNVec(right) \/ IsNaNVec(upC) \/ IsNaN(depth)
        THEN NaNPoint
        ELSE IF FLe(depth, Dbl(0)) THEN NaNPoint
        ELSE [x |-> Dbl(ViewW \div 2
                        + Quot(Vec3_dot(d, right)[1] * Focal(ViewW), depth[1])),
              y |-> Dbl(ViewH \div 2
                        - Quot(Vec3_dot(d, upC)[1] * Focal(ViewH), depth[1]))]

\* ------------------------------------------------------------------ Scene
\* What the model loader makes of each file: failure, or vertices and edges
\* (edges hold 1-based vertex indices).
ObjFiles == {"base_scene.obj", "missing.obj", "point.obj", "line.obj"}

LoadResult(fileName) ==
    CASE fileName = "base_scene.obj" ->
           [ok |-> TRUE,
            vertices |-> <<Vec3_new(2 * Scale, 0, 0), Vec3_new(0, 0, 2 * Scale),
                           Vec3_new(-2 * Scale, 0, 0), Vec3_new(0, 0, -2 * Scale)>>,
            edges |-> <<[a |-> 1, b |-> 2], [a |-> 2, b |-> 3],
                        [a |-> 3, b |-> 4], [a |-> 4, b |-> 1]>>]
      [] fileName = "line.obj" ->
           [ok |-> TRUE,
            vertices |-> <<Vec3_new(-Scale, 0, 0), Vec3_new(Scale, 0, 0)>>,
            edges |-> <<[a |-> 1, b |-> 2]>>]
      [] fileName = "point.obj" ->
           [ok |-> TRUE, vertices |-> <<Vec3_new(0, 0, 0)>>, edges |-> <<>>]
      [] OTHER -> [ok |-> FALSE, vertices |-> <<>>, edges |-> <<>>]

Max(S) == CHOOSE m \in S : \A o \in S : o <= m

\* The largest distance from the origin to a vertex; a positive default,
\* one world unit, for a scene without vertices.
Scene_radius(vs) ==
    IF Len(vs) = 0 THEN Scale
    ELSE Max({Isqrt(RawDot(vs[i], vs[i])) : i \in 1..Len(vs)})

\* Scene_projectPoints: every vertex through the camera, at its own index.
ProjectAll(vs, cam) == [i \in 1..Len(vs) |-> Camera_project(cam, vs[i])]

\* The three buffers of a scene: never allocated ("none"), allocated
\* ("live"), or handed back to the allocator with the scene still pointing
\* at them ("released").
Scene_erase(s) ==
    [vertices |-> <<>>, edges |-> <<>>, projectedPoints |-> <<>>,
     bufs |-> "none",
     cam |-> Camera_new(Vec3_new(0, 0, 0), Vec3_new(0, Scale, 0))]

Scene_setCamera(s, c) == [s EXCEPT !.cam = c]

\* Releases the vertex, edge and projected-point buffers; the scene's
\* fields are left as they are.
Scene_free(s) == [s EXCEPT !.bufs = IF s.bufs = "none" THEN "none" ELSE "released"]

\* A fresh projected-point buffer: one slot per vertex, not yet written.
FreshPoints(n) == [i \in 1..n |-> [x |-> Dbl(0), y |-> Dbl(0)]]

\* On success the vertices and edges are replaced wholesale, in new
\* buffers; on failure the scene is left exactly as it was handed in.
Scene_loadObj(s, fileName, present) ==
    LET r == LoadResult(fileName)
    IN  IF present /\ r.ok
        THEN [s EXCEPT !.vertices = r.vertices, !.edges = r.edges,
                       !.projectedPoints = FreshPoints(Len(r.vertices)),
                       !.bufs = "live"]
        ELSE s

Scene_projectPoints(s) ==
    [s EXCEPT !.projectedPoints = ProjectAll(s.vertices, s.cam)]

\* ------------------------------------------------------------- main.c
VARIABLES
    app,                \* the SoftwareRenderer
    pc,                 \* "start", "events", "draw", "present", "done", "crashed"
    now,                \* the tick source, ms
    relativeMouseMode,  \* SDL's pointer lock
    lines,              \* the segments draw put on the canvas in this frame
    held,               \* history: per movement key, whether its latest event was a key-down
    proj,               \* history: the camera and vertices the last projection read, and its frame
    lastEventAt,        \* history: the tick-source time of the latest input event, if any
    inputSeen,          \* history: an input event arrived since the last draw
    orbited,            \* history: the last update repositioned the camera
    uaf,                \* history: a released buffer has been touched
    stamps,             \* history: the tick-source times currentTick and lastInput were read at
    lockEvent,          \* history: the latest of left button down ("left") and Escape down or up ("escape")
    frames              \* updates so far

vars == <<app, pc, now, relativeMouseMode, lines, held, proj, lastEventAt,
          inputSeen, orbited, uaf, stamps, lockEvent, frames>>

MoveKeys == {"w", "s", "a", "d", "space", "lshift"}
Keys == MoveKeys \cup {"escape", "q"}
Buttons == {"left", "right"}
MouseDeltas == {0, 785}
FrameTimes == {60, 1000}
UBOutcomes == {"intact", "crash"}

\* The width of the tick counters.  main.c holds them in Uint32; the model
\* checker's integers stop below 2^31, so the counters wrap at 2^30 here.
TickModulus == 2 ^ 30

\* SDL_GetTicks()
SDL_GetTicks == now % TickModulus

\* (double)SDL_GetTicks() / 2000.0, in milliradians: ticks * 1000 /
\* TicksPerRadian, taken in two parts to stay within the integers
Milliradians(ticks) ==
    (ticks \div TicksPerRadian) * 1000
        + ((ticks % TicksPerRadian) * 1000) \div TicksPerRadian

calculateSceneRadius(a) == [a EXCEPT !.sceneRadius = Scene_radius(a.scene.vertices)]

calculateCameraPosAndSpeed(a, ticks) ==
    LET r == a.sceneRadius
        angle == Milliradians(ticks)
        newPos == Vec3_cylindrical(r, angle, Quot(r * 10, 12))
        newDirection == Vec3_setLength(newPos, -1)
    IN  [a EXCEPT !.scene.cam =
            [Camera_setLookDirection(a.scene.cam, newDirection) EXCEPT !.pos = newPos]]

\* main.c:54-75, the listeners aside
initApp(ticks, present) ==
    LET s0 == Scene_setCamera(Scene_erase(app.scene),
                              Camera_new(Vec3_new(0, 0, 0), Vec3_new(0, Scale, 0)))
        a0 == [currentTick |-> ticks, lastInput |-> ticks,
               vel |-> Vec3_new(0, 0, 0),
               movingForward |-> FALSE, movingBackward |-> FALSE,
               movingLeft |-> FALSE, movingRight |-> FALSE,
               movingUp |-> FALSE, movingDown |-> FALSE,
               sceneRadius |-> 0,
               scene |-> Scene_loadObj(s0, "base_scene.obj", present)]
    IN  calculateCameraPosAndSpeed(calculateSceneRadius(a0), ticks)

\* pow(0.00001, dt / 1000) is 2 ^ -(dt / 60.2): one halving per HalfLife ms
HalfLife == 60

\* force += v / force -= v under a movement flag
AddIf(flag, f, v) == IF flag THEN Vec3_add(f, v) ELSE f
SubIf(flag, f, v) == IF flag THEN Vec3_sub(f, v) ELSE f

\* main.c:92-97: the held horizontal directions, summed
SumOfDirections(a, fwd, right) ==
    SubIf(a.movingLeft,
          AddIf(a.movingRight,
                SubIf(a.movingBackward,
                      AddIf(a.movingForward, Vec3_new(0, 0, 0), fwd),
                      fwd),
                right),
          right)

\* main.c:98: the sum is brought to unit length unless its squared length
\* compares equal to zero
Normalized(f) == IF FNe(Vec3_sqLength(f), Dbl(0)) THEN Vec3_setLength(f, 1) ELSE f

\* main.c:91-98, the horizontal force
HorizontalForce(a) ==
    Normalized(SumOfDirections(a, Camera_directionForwardHorizontal(a.scene.cam),
                               Camera_directionRight(a.scene.cam)))

\* main.c:100-104
Force(a, dt) ==
    Vec3_mult(SubIf(a.movingDown,
                    AddIf(a.movingUp, HorizontalForce(a), a.scene.cam.up),
                    a.scene.cam.up),
              a.sceneRadius * dt * moveForce, 100 * Scale)

\* main.c:108
Damped(v, dt) == Vec3_mult(v, 1, 2 ^ (dt \div HalfLife))

\* main.c:110-112
Displaced(a, v, dt) ==
    [a EXCEPT !.vel = v,
              !.scene.cam.pos = Vec3_add(a.scene.cam.pos, Vec3_mult(v, dt, 1000))]

\* main.c:106-112
MoveCamera(a, dt) == Displaced(a, Damped(Vec3_add(a.vel, Force(a, dt)), dt), dt)

\* currentTick - lastInput, in unsigned arithmetic
IdleTime(a) == (a.currentTick - a.lastInput) % TickModulus

\* What the projection of a frame read
Seen(s, frame) == [cam |-> s.cam, vertices |-> s.vertices, frame |-> frame]

\* main.c:114-116
OrbitIfIdle(a, ticks) ==
    IF IdleTime(a) > IdleLimit THEN calculateCameraPosAndSpeed(a, ticks) ELSE a

\* main.c:118, with what the projection read
Projected(a, idle, frame) ==
    [app |-> [a EXCEPT !.scene = Scene_projectPoints(a.scene)],
     orbited |-> idle,
     seen |-> Seen(a.scene, frame)]

\* main.c:114-118, on the application as the movement left it
OrbitAndProject(a, ticks, frame) ==
    Projected(OrbitIfIdle(a, ticks), IdleTime(a) > IdleLimit, frame)

\* updateApp with the projection taken before the idle orbit repositions
\* the camera
updateApp_projectsFirst(a, dt, ticks, frame) ==
    LET a2 == MoveCamera([a EXCEPT !.currentTick = ticks], dt)
    IN  [app |-> OrbitIfIdle([a2 EXCEPT !.scene = Scene_projectPoints(a2.scene)], ticks),
         orbited |-> IdleTime(a2) > IdleLimit,
         seen |-> Seen(a2.scene, frame)]

\* main.c:89-118: the application after update, whether the idle orbit ran,
\* and what Scene_projectPoints read.
updateApp(a, dt, ticks, frame) ==
    OrbitAndProject(MoveCamera([a EXCEPT !.currentTick = ticks], dt), ticks, frame)

\* drawLines with the loop bound off by one (i <= edgeCount): the slot past
\* the last edge is read as an edge between two stray points
RECURSIVE drawLines_pastEnd(_, _)
drawLines_pastEnd(s, i) ==
    IF i > Len(s.edges) + 1 THEN <<>>
    ELSE LET inside == i <= Len(s.edges)
             pa == IF inside THEN s.projectedPoints[s.edges[i].a] ELSE NaNPoint
             pb == IF inside THEN s.projectedPoints[s.edges[i].b] ELSE NaNPoint
         IN  (IF FNe(pa.x, NAN) /\ FNe(pb.x, NAN) /\ FNe(pa.y, NAN) /\ FNe(pb.y, NAN)
              THEN <<[edge |-> i, a |-> pa, b |-> pb]>>
              ELSE <<>>) \o drawLines_pastEnd(s, i + 1)

\* main.c:128-138: one segment per edge that passes the four comparisons
RECURSIVE drawLines(_, _)
drawLines(s, i) ==
    IF i > Len(s.edges) THEN <<>>
    ELSE LET e == s.edges[i]
             pa == s.projectedPoints[e.a]
             pb == s.projectedPoints[e.b]
         IN  (IF FNe(pa.x, NAN) /\ FNe(pb.x, NAN) /\ FNe(pa.y, NAN) /\ FNe(pb.y, NAN)
              THEN <<[edge |-> i, a |-> pa, b |-> pb]>>
              ELSE <<>>) \o drawLines(s, i + 1)

\* onKeyDownApp with lastInput read from the tick source at the event
onKeyDownApp_freshTick(a, code) ==
    LET a1 == [a EXCEPT !.lastInput = SDL_GetTicks]
    IN  CASE code = "w" -> [a1 EXCEPT !.movingForward = TRUE]
          [] code = "s" -> [a1 EXCEPT !.movingBackward = TRUE]
          [] code = "a" -> [a1 EXCEPT !.movingLeft = TRUE]
          [] code = "d" -> [a1 EXCEPT !.movingRight = TRUE]
          [] code = "space" -> [a1 EXCEPT !.movingUp = TRUE]
          [] code = "lshift" -> [a1 EXCEPT !.movingDown = TRUE]
          [] OTHER -> a1

onKeyDownApp(a, code) ==
    LET a1 == [a EXCEPT !.lastInput = a.currentTick]
    IN  CASE code = "w" -> [a1 EXCEPT !.movingForward = TRUE]
          [] code = "s" -> [a1 EXCEPT !.movingBackward = TRUE]
          [] code = "a" -> [a1 EXCEPT !.movingLeft = TRUE]
          [] code = "d" -> [a1 EXCEPT !.movingRight = TRUE]
          [] code = "space" -> [a1 EXCEPT !.movingUp = TRUE]
          [] code = "lshift" -> [a1 EXCEPT !.movingDown = TRUE]
          [] OTHER -> a1

\* onKeyUpApp with the case of S clearing the flag of W
onKeyUpApp_clearsForward(a, code) ==
    LET a1 == [a EXCEPT !.lastInput = a.currentTick]
    IN  CASE code = "w" -> [a1 EXCEPT !.movingForward = FALSE]
          [] code = "s" -> [a1 EXCEPT !.movingForward = FALSE]
          [] code = "a" -> [a1 EXCEPT !.movingLeft = FALSE]
          [] code = "d" -> [a1 EXCEPT !.movingRight = FALSE]
          [] code = "space" -> [a1 EXCEPT !.movingUp = FALSE]
          [] code = "lshift" -> [a1 EXCEPT !.movingDown = FALSE]
          [] OTHER -> a1

onKeyUpApp(a, code) ==
    LET a1 == [a EXCEPT !.lastInput = a.currentTick]
    IN  CASE code = "w" -> [a1 EXCEPT !.movingForward = FALSE]
          [] code = "s" -> [a1 EXCEPT !.movingBackward = FALSE]
          [] code = "a" -> [a1 EXCEPT !.movingLeft = FALSE]
          [] code = "d" -> [a1 EXCEPT !.movingRight = FALSE]
          [] code = "space" -> [a1 EXCEPT !.movingUp = FALSE]
          [] code = "lshift" -> [a1 EXCEPT !.movingDown = FALSE]
          [] OTHER -> a1

onMouseMoveApp(a, dx, dy) ==
    [a EXCEPT !.lastInput = a.currentTick,
              !.scene.cam = Camera_tiltDown(Camera_turnRight(a.scene.cam, dx), dy)]

\* onFileDropApp taking the drop for an input event, as the other handlers
\* do
onFileDropApp_resetsIdle(a, fileName, ticks) ==
    LET a1 == [a EXCEPT !.lastInput = a.currentTick,
                        !.scene = Scene_loadObj(Scene_free(a.scene), fileName, TRUE)]
    IN  calculateCameraPosAndSpeed(calculateSceneRadius(a1), ticks)

\* main.c:162-165
onFileDropApp(a, fileName, ticks) ==
    LET a1 == [a EXCEPT !.scene = Scene_loadObj(Scene_free(a.scene), fileName, TRUE)]
    IN  calculateCameraPosAndSpeed(calculateSceneRadius(a1), ticks)

\* ---------------------------------------------------------------- actions
\* The outcomes open to a step: one that touches released buffers is
\* undefined behaviour, and may go on as if they were intact or crash.
Outcomes(touchesReleased) == IF touchesReleased THEN UBOutcomes ELSE {"intact"}

Crash ==
    /\ pc' = "crashed"
    /\ uaf' = TRUE
    /\ UNCHANGED <<app, now, relativeMouseMode, lines, held, proj, lastEventAt,
                   inputSeen, orbited, stamps, lockEvent, frames>>

Uninitialized ==
    [currentTick |-> 0, lastInput |-> 0, vel |-> Vec3_new(0, 0, 0),
     movingForward |-> FALSE, movingBackward |-> FALSE, movingLeft |-> FALSE,
     movingRight |-> FALSE, movingUp |-> FALSE, movingDown |-> FALSE,
     sceneRadius |-> 0, scene |-> Scene_erase(<<>>)]

Init ==
    /\ app = Uninitialized
    /\ pc = "start"
    /\ now = 0
    /\ relativeMouseMode = FALSE
    /\ lines = <<>>
    /\ held = [k \in MoveKeys |-> FALSE]
    /\ proj = Seen(Uninitialized.scene, 0)
    /\ lastEventAt = <<>>
    /\ inputSeen = FALSE
    /\ orbited = FALSE
    /\ uaf = FALSE
    /\ stamps = [tickAt |-> 0, inputAt |-> 0]
    /\ lockEvent = "none"
    /\ frames = 0

\* init: the base scene file is there or not
init(present) ==
    /\ pc = "start"
    /\ app' = initApp(SDL_GetTicks, present)
    /\ pc' = "events"
    /\ stamps' = [tickAt |-> now, inputAt |-> now]
    /\ UNCHANGED <<now, relativeMouseMode, lines, held, proj, lastEventAt,
                   inputSeen, orbited, uaf, lockEvent, frames>>

\* The tick source moves on between two callbacks.
Tick ==
    /\ pc = "events"
    /\ now < MaxTicks * TickStep
    /\ now' = now + TickStep
    /\ UNCHANGED <<app, pc, relativeMouseMode, lines, held, proj, lastEventAt,
                   inputSeen, orbited, uaf, stamps, lockEvent, frames>>

update(dt, ub) ==
    /\ pc = "events"
    /\ frames < MaxFrames
    /\ ub \in Outcomes(app.scene.bufs = "released")
    /\ IF ub = "crash" THEN Crash
       ELSE LET r == updateApp(app, dt, SDL_GetTicks, frames + 1)
            IN  /\ app' = r.app
                /\ orbited' = r.orbited
                /\ proj' = r.seen
                /\ pc' = "draw"
                /\ frames' = frames + 1
                /\ uaf' = (uaf \/ app.scene.bufs = "released")
                /\ stamps' = [stamps EXCEPT !.tickAt = now]
                /\ UNCHANGED <<now, relativeMouseMode, lines, held, lastEventAt,
                               inputSeen, lockEvent>>

draw(ub) ==
    /\ pc = "draw"
    /\ ub \in Outcomes(app.scene.bufs = "released")
    /\ IF ub = "crash" THEN Crash
       ELSE /\ lines' = drawLines(app.scene, 1)
            /\ pc' = "present"
            /\ uaf' = (uaf \/ app.scene.bufs = "released")
            /\ UNCHANGED <<app, now, relativeMouseMode, held, proj, lastEventAt,
                           inputSeen, orbited, stamps, lockEvent, frames>>

\* The loop shows the canvas and turns to the next frame's events; the
\* histories of the frame end with it.
endFrame ==
    /\ pc = "present"
    /\ pc' = "events"
    /\ lines' = <<>>
    /\ proj' = Seen(Uninitialized.scene, 0)
    /\ inputSeen' = FALSE
    /\ UNCHANGED <<app, now, relativeMouseMode, held, lastEventAt, orbited, uaf,
                   stamps, lockEvent, frames>>

\* What every input handler leaves alone, and the history it writes
InputEvent ==
    /\ pc = "events"
    /\ lastEventAt' = <<now>>
    /\ inputSeen' = TRUE
    /\ stamps' = [stamps EXCEPT !.inputAt = stamps.tickAt]
    /\ UNCHANGED <<pc, now, lines, proj, orbited, uaf, frames>>

onKeyDown(code) ==
    /\ InputEvent
    /\ app' = onKeyDownApp(app, code)
    /\ relativeMouseMode' = IF code = "escape" THEN FALSE ELSE relativeMouseMode
    /\ held' = IF code \in MoveKeys THEN [held EXCEPT ![code] = TRUE] ELSE held
    /\ lockEvent' = IF code = "escape" THEN "escape" ELSE lockEvent

onKeyUp(code) ==
    /\ InputEvent
    /\ app' = onKeyUpApp(app, code)
    /\ relativeMouseMode' = IF code = "escape" THEN FALSE ELSE relativeMouseMode
    /\ held' = IF code \in MoveKeys THEN [held EXCEPT ![code] = FALSE] ELSE held
    /\ lockEvent' = IF code = "escape" THEN "escape" ELSE lockEvent

\* onMouseButtonDown locking the pointer on any button
onMouseButtonDown_anyButton(button) ==
    /\ InputEvent
    /\ app' = [app EXCEPT !.lastInput = app.currentTick]
    /\ relativeMouseMode' = TRUE
    /\ lockEvent' = IF button = "left" THEN "left" ELSE lockEvent
    /\ UNCHANGED held

onMouseButtonDown(button) ==
    /\ InputEvent
    /\ app' = [app EXCEPT !.lastInput = app.currentTick]
    /\ relativeMouseMode' = IF button = "left" THEN TRUE ELSE relativeMouseMode
    /\ lockEvent' = IF button = "left" THEN "left" ELSE lockEvent
    /\ UNCHANGED held

onMouseMove(dx, dy) ==
    /\ InputEvent
    /\ app' = onMouseMoveApp(app, dx, dy)
    /\ UNCHANGED <<relativeMouseMode, held, lockEvent>>

\* Scene_free on released buffers frees them twice; Scene_radius after a
\* failed load reads released vertices.
DropTouchesReleased(fileName) ==
    \/ app.scene.bufs = "released"
    \/ app.scene.bufs = "live" /\ ~LoadResult(fileName).ok

onFileDrop(fileName, ub) ==
    /\ pc = "events"
    /\ ub \in Outcomes(DropTouchesReleased(fileName))
    /\ IF ub = "crash" THEN Crash
       ELSE /\ app' = onFileDropApp(app, fileName, SDL_GetTicks)
            /\ uaf' = (uaf \/ DropTouchesReleased(fileName))
            /\ UNCHANGED <<pc, now, relativeMouseMode, lines, held, proj,
                           lastEventAt, inputSeen, orbited, stamps, lockEvent,
                           frames>>

\* main.c:39-40: the loop returns and main frees the scene
Quit(ub) ==
    /\ pc = "events"
    /\ ub \in Outcomes(app.scene.bufs = "released")
    /\ IF ub = "crash" THEN Crash
       ELSE /\ app' = [app EXCEPT !.scene = Scene_free(app.scene)]
            /\ pc' = "done"
            /\ uaf' = (uaf \/ app.scene.bufs = "released")
            /\ UNCHANGED <<now, relativeMouseMode, lines, held, proj, lastEventAt,
                           inputSeen, orbited, stamps, lockEvent, frames>>

\* One step of the program, with the inputs drawn from the given sets
Step(keys, buttons, deltas, files, dts) ==
    \/ \E present \in BOOLEAN : init(present)
    \/ Tick
    \/ \E dt \in dts, ub \in UBOutcomes : update(dt, ub)
    \/ \E ub \in UBOutcomes : draw(ub)
    \/ endFrame
    \/ \E code \in keys : onKeyDown(code)
    \/ \E code \in keys : onKeyUp(code)
    \/ \E button \in buttons : onMouseButtonDown(button)
    \/ \E d \in deltas : onMouseMove(d[1], d[2])
    \/ \E fileName \in files, ub \in UBOutcomes : onFileDrop(fileName, ub)
    \/ \E ub \in UBOutcomes : Quit(ub)

\* The whole program, on a handful of inputs of each kind
Next ==
    Step({"w", "q"}, {"right"}, {<<3142, 785>>},
         {"missing.obj", "point.obj", "line.obj"}, FrameTimes)

Spec == Init /\ [][Next]_vars

\* The input handlers on every key, button and mouse delta they tell apart,
\* in the event phase of the first frame
NextInput ==
    \/ \E present \in BOOLEAN : init(present)
    \/ \E code \in Keys : onKeyDown(code)
    \/ \E code \in Keys : onKeyUp(code)
    \/ \E button \in Buttons : onMouseButtonDown(button)
    \/ \E dx \in MouseDeltas, dy \in MouseDeltas : onMouseMove(dx, dy)

SpecInput == Init /\ [][NextInput]_vars

\* ----------------------------------------------------------------- claims
Geometry(s) == [vertices |-> s.vertices, edges |-> s.edges, bufs |-> s.bufs]

HasNaN(p) == IsNaN(p.x) \/ IsNaN(p.y)

Zero3 == Vec3_new(0, 0, 0)

\* C1: a file drop whose load fails leaves the scene's vertices and edges,
\* and the buffers that hold them, as they were before the drop.
C1_FailedDropKeepsGeometry ==
    [][\A f \in ObjFiles :
          (~LoadResult(f).ok /\ onFileDrop(f, "intact"))
              => Geometry(app'.scene) = Geometry(app.scene)]_vars

\* C2: draw puts a segment on the canvas for an edge exactly when neither of
\* its projected endpoints carries the invalid marker.
C2_NaNEdgesSkipped ==
    pc = "present" =>
        \A i \in 1..Len(app.scene.edges) :
            (\E j \in 1..Len(lines) : lines[j].edge = i)
                <=> ~(\/ HasNaN(app.scene.projectedPoints[app.scene.edges[i].a])
                      \/ HasNaN(app.scene.projectedPoints[app.scene.edges[i].b]))

\* C3: when draw is about to run, the projection of this frame has run, it
\* ran after the frame's last change to the camera, and neither the camera
\* nor the geometry has changed since.
C3_ProjectionBetweenMoveAndDraw ==
    pc = "draw" =>
        /\ proj.frame = frames
        /\ proj.cam = app.scene.cam
        /\ proj.vertices = app.scene.vertices

C3_Witness ==
    /\ pc = "draw"
    /\ orbited
    /\ inputSeen
    /\ app.movingForward
    /\ Len(app.scene.vertices) > 0

\* C4: whenever draw can run, the scene holds a projected-point buffer with
\* one entry per vertex, each the projection of the current vertex at its
\* index by the latest Scene_projectPoints.
C4_ProjectedPointsMatchVertices ==
    pc = "draw" =>
        /\ app.scene.bufs # "released"
        /\ Len(app.scene.projectedPoints) = Len(app.scene.vertices)
        /\ proj.vertices = app.scene.vertices
        /\ app.scene.projectedPoints = ProjectAll(app.scene.vertices, proj.cam)

\* C5: an update that repositions the camera for the idle orbit runs at
\* least IdleLimit ms of tick time after the latest input event.
C5_NoOrbitSoonAfterInput ==
    (pc = "draw" /\ orbited /\ lastEventAt # <<>>)
        => now - lastEventAt[1] >= IdleLimit

\* C6: while the scene is empty (no buffers: the initial load failed and no
\* later load succeeded) nothing crashes, the projected-point sequence is
\* empty and no segment is drawn.
C6_EmptySceneRuns ==
    (pc # "start" /\ app.scene.bufs = "none") =>
        /\ pc # "crashed"
        /\ ~uaf
        /\ app.scene.vertices = <<>>
        /\ app.scene.projectedPoints = <<>>
        /\ lines = <<>>

C6_Witness ==
    /\ app.scene.bufs = "none"
    /\ pc = "present"
    /\ orbited
    /\ frames = MaxFrames

\* The vector calculateCameraPosAndSpeed hands to Vec3_setLength when it
\* runs at the given tick
OrbitPos(a, ticks) ==
    Vec3_cylindrical(a.sceneRadius, Milliradians(ticks),
                     Quot(a.sceneRadius * 10, 12))

\* C7: once init has run, the vector the next orbit repositioning would
\* normalise is not the zero vector, and no NaN is in the camera, the
\* velocity or (through a NaN camera) the projected points.
C7_SetLengthOnlyOnNonZero ==
    pc # "start" =>
        /\ OrbitPos(app, SDL_GetTicks) # Zero3
        /\ ~IsNaNVec(app.scene.cam.dir)
        /\ ~IsNaNVec(app.scene.cam.pos)
        /\ ~IsNaNVec(app.vel)

\* d is a direction, and points from p to the origin (up to the rounding of
\* one normalisation)
PointsToOrigin(d, p) ==
    /\ ~IsNaNVec(d)
    /\ ~IsNaNVec(p)
    /\ RawDot(d, p) < 0
    /\ LET c == Vec3_cross(d, p)
           tol == (2 * Isqrt(RawDot(p, p))) \div Scale + 1
       IN  Abs(c[1]) <= tol /\ Abs(c[2]) <= tol /\ Abs(c[3]) <= tol

\* C8: after an update that ran the idle orbit, the camera is at
\* Vec3_cylindrical(r, ticks / 2000, r / 1.2) with r = sceneRadius,
\* whatever the velocity and the movement flags, and looks from there
\* toward the origin.
C8_OrbitPlacesCamera ==
    (pc = "draw" /\ orbited) =>
        /\ app.scene.cam.pos = OrbitPos(app, SDL_GetTicks)
        /\ PointsToOrigin(app.scene.cam.dir, app.scene.cam.pos)

\* C9: an update repositions the camera exactly when currentTick -
\* lastInput > 10000; after a repositioning update the next one repositions
\* too unless an input event came in between; and the first update after an
\* input event does not reposition.
C9_TwoStateMode ==
    [][(pc = "events" /\ pc' = "draw") =>
          /\ orbited' <=> (IdleTime(app') > IdleLimit)
          /\ (orbited /\ ~inputSeen) => orbited'
          /\ inputSeen => ~orbited']_vars

Flag(a, k) ==
    CASE k = "w" -> a.movingForward
      [] k = "s" -> a.movingBackward
      [] k = "a" -> a.movingLeft
      [] k = "d" -> a.movingRight
      [] k = "space" -> a.movingUp
      [] k = "lshift" -> a.movingDown

\* C10: each of the six movement flags is true exactly when the latest
\* event of its key was a key-down (false while the key has had no event).
C10_FlagsFollowKeys == \A k \in MoveKeys : Flag(app, k) = held[k]

C10_Witness ==
    /\ app.movingForward
    /\ app.movingDown
    /\ ~app.movingLeft
    /\ ~app.movingUp
    /\ relativeMouseMode
    /\ lastEventAt # <<>>

\* C11: whenever update can run or has run, the scene holds geometry (in
\* buffers that were not released) and sceneRadius is Scene_radius of it.
C11_RadiusMatchesGeometry ==
    pc \in {"events", "draw", "present"} =>
        /\ app.scene.bufs # "released"
        /\ app.sceneRadius = Scene_radius(app.scene.vertices)

\* The movement keys in opposing pairs, frames of either length, and drops
\* of a model that loads and of one that does not
NextMove ==
    \/ \E present \in BOOLEAN : init(present)
    \/ \E dt \in FrameTimes, ub \in UBOutcomes : update(dt, ub)
    \/ \E ub \in UBOutcomes : draw(ub)
    \/ endFrame
    \/ \E code \in {"w", "s", "space", "lshift"} : onKeyDown(code)
    \/ \E code \in {"w", "s", "space", "lshift"} : onKeyUp(code)
    \/ \E fileName \in {"point.obj", "missing.obj"}, ub \in UBOutcomes :
           onFileDrop(fileName, ub)

SpecMove == Init /\ [][NextMove]_vars

\* each pair of opposing movement flags is equal
PairsEqual(a) ==
    /\ a.movingForward = a.movingBackward
    /\ a.movingRight = a.movingLeft
    /\ a.movingUp = a.movingDown

\* main.c:98: the test that lets Vec3_setLength run on the summed force
SetLengthCalled(a) ==
    FNe(Vec3_sqLength(SumOfDirections(a, Camera_directionForwardHorizontal(a.scene.cam),
                                      Camera_directionRight(a.scene.cam))),
        Dbl(0))

\* C12: an update that starts with each pair of opposing movement flags
\* equal does not call Vec3_setLength on the force, and leaves the velocity
\* as it was but for the damping of the frame.
C12_OpposingFlagsNoForce ==
    [][\A dt \in FrameTimes :
          (PairsEqual(app) /\ update(dt, "intact"))
              => (~SetLengthCalled(app) /\ app'.vel = Damped(app.vel, dt))]_vars

\* The program is left running until the tick counter is one step short of
\* wrapping around.
LongRun ==
    /\ pc = "events"
    /\ now < TickModulus - TickStep
    /\ now' = TickModulus - TickStep
    /\ UNCHANGED <<app, pc, relativeMouseMode, lines, held, proj, lastEventAt,
                   inputSeen, orbited, uaf, stamps, lockEvent, frames>>

\* The tick source moves on across the wrap of the counter.
TickOver ==
    /\ pc = "events"
    /\ now >= TickModulus - TickStep
    /\ now < TickModulus + TickStep
    /\ now' = now + TickStep
    /\ UNCHANGED <<app, pc, relativeMouseMode, lines, held, proj, lastEventAt,
                   inputSeen, orbited, uaf, stamps, lockEvent, frames>>

\* Frames and input events before, at and after the wrap of the tick counter
NextWrap ==
    \/ \E present \in BOOLEAN : init(present)
    \/ LongRun
    \/ TickOver
    \/ \E dt \in FrameTimes, ub \in UBOutcomes : update(dt, ub)
    \/ \E ub \in UBOutcomes : draw(ub)
    \/ endFrame
    \/ onKeyDown("escape")
    \/ onKeyUp("escape")
    \/ \E button \in Buttons : onMouseButtonDown(button)

SpecWrap == Init /\ [][NextWrap]_vars

\* C13: currentTick - lastInput, as update computes it in unsigned
\* arithmetic, is the tick time between the reading of the tick source that
\* lastInput was copied from and the latest reading, modulo the width of
\* the counter; the former reading is never the later one; and lastInput <=
\* currentTick as long as the tick source has not wrapped.
C13_IdleTimeIsElapsed ==
    pc # "start" =>
        /\ stamps.inputAt <= stamps.tickAt
        /\ IdleTime(app) = (stamps.tickAt - stamps.inputAt) % TickModulus
        /\ stamps.tickAt < TickModulus => app.lastInput <= app.currentTick

C13_Witness ==
    /\ pc = "draw"
    /\ inputSeen
    /\ app.lastInput > app.currentTick
    /\ IdleTime(app) = TickStep
    /\ ~orbited

\* C13 as stated: lastInput <= currentTick in every state, so that the
\* subtraction in update never wraps around.
C13_LastInputNotAfterCurrentTick ==
    pc # "start" =>
        /\ app.lastInput <= app.currentTick
        /\ IdleTime(app) = app.currentTick - app.lastInput

\* C14: no step of a run touches vertex, edge or projected-point buffers
\* that Scene_free has released, unless a load has put new ones in their
\* place since.
C14_NoUseAfterFree == ~uaf /\ pc # "crashed"

\* File drops between frames, with the tick source running and a movement
\* key that goes down
NextDrop ==
    \/ \E present \in BOOLEAN : init(present)
    \/ Tick
    \/ \E dt \in FrameTimes, ub \in UBOutcomes : update(dt, ub)
    \/ \E ub \in UBOutcomes : draw(ub)
    \/ endFrame
    \/ onKeyDown("w")
    \/ \E fileName \in {"missing.obj", "point.obj", "line.obj"}, ub \in UBOutcomes :
           onFileDrop(fileName, ub)

SpecDrop == Init /\ [][NextDrop]_vars

\* C15: a file drop leaves lastInput, the velocity and the six movement
\* flags as they were, and with them the idle time the next update decides
\* by; it puts the camera on the orbit once; and an update that follows an
\* orbiting one with no input event in between orbits too, whatever was
\* dropped in between.
C15_DropKeepsIdleTimer ==
    [][/\ \A f \in ObjFiles :
             onFileDrop(f, "intact") =>
                 /\ app'.lastInput = app.lastInput
                 /\ IdleTime(app') = IdleTime(app)
                 /\ app'.vel = app.vel
                 /\ \A k \in MoveKeys : Flag(app', k) = Flag(app, k)
                 /\ app'.scene.cam.pos = OrbitPos(app', SDL_GetTicks)
       /\ (pc = "events" /\ pc' = "draw" /\ orbited /\ ~inputSeen) => orbited']_vars

\* a model dropped after an orbiting update, its points not yet projected
C15_Witness ==
    /\ pc = "events"
    /\ frames = 1
    /\ orbited
    /\ ~inputSeen
    /\ IdleTime(app) > IdleLimit
    /\ app.scene.vertices = LoadResult("line.obj").vertices
    /\ app.scene.projectedPoints = FreshPoints(Len(app.scene.vertices))
    /\ app.scene.cam.pos = OrbitPos(app, SDL_GetTicks)
    /\ app.movingForward
    /\ app.vel # Zero3

\* The events that bear on the pointer lock and the look direction: both
\* mouse buttons, Escape, a movement key, a key without a case, and mouse
\* moves
NextPointer ==
    \/ \E present \in BOOLEAN : init(present)
    \/ \E code \in {"escape", "w", "q"} : onKeyDown(code)
    \/ \E code \in {"escape", "w", "q"} : onKeyUp(code)
    \/ \E button \in Buttons : onMouseButtonDown(button)
    \/ \E dx \in MouseDeltas, dy \in MouseDeltas : onMouseMove(dx, dy)

SpecPointer == Init /\ [][NextPointer]_vars

\* C16: relative mouse mode is on exactly when the latest event among left
\* button down, Escape down and Escape up was a left button down (off while
\* there has been none), and a mouse move turns the camera by dx / 1000 and
\* tilts it by dy / 1000 whatever the mode, which it leaves alone.
C16_PointerLockFollowsEvents ==
    /\ [](relativeMouseMode <=> lockEvent = "left")
    /\ [][\A dx \in MouseDeltas, dy \in MouseDeltas :
              onMouseMove(dx, dy) =>
                  /\ app'.scene.cam =
                         Camera_tiltDown(Camera_turnRight(app.scene.cam, dx), dy)
                  /\ relativeMouseMode' = relativeMouseMode]_vars

\* the pointer unlocked by Escape, with the camera turned off its first
\* direction and a movement key held
C16_Witness ==
    /\ ~relativeMouseMode
    /\ lockEvent = "escape"
    /\ held["w"]
    /\ app.scene.cam.dir # initApp(0, TRUE).scene.cam.dir
    /\ app.scene.cam.pos = initApp(0, TRUE).scene.cam.pos

====
